---- MODULE Spec2Model ----
(***************************************************************************)
(* Model of pkg/rte/task.go: the task validator (Task.Validate) and the    *)
(* attestation protocol (SignTask / VerifyTask) built on encoding/json and *)
(* crypto/ed25519, and the hash-chained audit log that records the         *)
(* outcome of executing attested tasks.                                    *)
(*                                                                         *)
(* A Go string is a sequence of units; a unit is a chunk of valid text or  *)
(* one of the markers below (a byte that is not valid UTF-8, or the rune   *)
(* U+FFFD).  The empty Go string is the empty sequence.                    *)
(* Instants are integers counted in ticks, TicksPerSecond ticks a second.  *)
(***************************************************************************)
EXTENDS Integers, Sequences, FiniteSets, TLC

VARIABLES now, task, heap, st, st2, ret, issued, expiredSeen, edits, log

vars == <<now, task, heap, st, st2, ret, issued, expiredSeen, edits, log>>

(***************************************************************************)
(* Bounds of the model.                                                    *)
(***************************************************************************)
\* resolution of the clock: ticks per second (time.Time counts nanoseconds)
TicksPerSecond == 2
\* the second, counted from the origin of the model's time line, at which
\* year 10000 begins (the origin is placed late in year 9999)
Y10KSecond == 8000
\* number of signature bits an attacker may flip (one at a time)
NSigBits == 2
\* number of in-place changes made in a run, to a SignedTask or to the
\* caller's own task value
MaxEdits == 1

(***************************************************************************)
(* Program constants.                                                      *)
(***************************************************************************)
maxTTLSeconds == 3600
minTTLSeconds == 1
PrivateKeySize == 64
PublicKeySize == 32
SignatureSize == 64

TaskSimulateLogin == <<"simulate_login">>
TaskSimulateBeacon == <<"simulate_beacon">>
TaskInventory == <<"inventory">>
TaskEmitSynthetic == <<"emit_synthetic">>

StatePending == <<"pending">>
StateExecuting == <<"executing">>
StateCancelled == <<"cancelled">>
StateCompleted == <<"completed">>
StateFailed == <<"failed">>

allowedTaskTypes == {TaskSimulateLogin, TaskSimulateBeacon, TaskInventory, TaskEmitSynthetic}

validTaskStates == {StatePending, StateExecuting, StateCancelled, StateCompleted, StateFailed}

\* The identifiers the test suite and the README name; task.go declares
\* neither, so they denote values outside the two sets above.
TaskTypeRecon == <<"recon">>
TaskStateApproved == <<"approved">>

(***************************************************************************)
(* Go values.                                                              *)
(***************************************************************************)
\* units of a Go string that are not valid text
ByteFF == "0xFF"
ByteFE == "0xFE"
RuneFFFD == "U+FFFD"
\* the six characters backslash, u, f, f, f, d that the encoder writes
EscFFFD == "\\ufffd"

\* a nil map, a nil pointer, a nil error
NilMap == 0
Nil == [nil |-> TRUE]
NoError == "nil"

\* the map a reference points to; a nil map reads as the empty map
MapOf(h, ref) == IF ref = NilMap THEN <<>> ELSE h[ref]

\* a task with its Params map read through the heap: {} for a nil map
Deep(h, t) == [t EXCEPT !.Params = IF t.Params = NilMap THEN {} ELSE {h[t.Params]}]

DeepSigned(h, s) == IF s = Nil THEN Nil ELSE [s EXCEPT !.Task = Deep(h, s.Task)]

(***************************************************************************)
(* Task.Validate                                                           *)
(***************************************************************************)
ErrID == "task ID is required"
ErrEngagement == "engagement is required"
ErrOperator == "operator is required"
ErrApprovedBy == "approved_by is required"
ErrType == "unsupported task type"
ErrTTL == "TTLSeconds out of range"
ErrState == "invalid task state"
ErrExpired == "task expired"

ExpiryInTicks(t) == t.CreatedAt + t.TTLSeconds

\* t.CreatedAt.Add(time.Duration(t.TTLSeconds) * time.Second)
Expiry(t) == t.CreatedAt + t.TTLSeconds * TicksPerSecond

ExpiredLax(t, n) == n > Expiry(t)

\* now.After(expiry) || now.Equal(expiry)
Expired(t, n) == n > Expiry(t) \/ n = Expiry(t)

TTLInRangeLax(t) == t.TTLSeconds <= maxTTLSeconds

TTLInRange(t) == ~(t.TTLSeconds < minTTLSeconds \/ t.TTLSeconds > maxTTLSeconds)

ValidateSwapped(t, n) ==
    IF t.ID = <<>> THEN ErrID
    ELSE IF t.Engagement = <<>> THEN ErrEngagement
    ELSE IF t.Operator = <<>> THEN ErrOperator
    ELSE IF t.ApprovedBy = <<>> THEN ErrApprovedBy
    ELSE IF ~TTLInRange(t) THEN ErrTTL
    ELSE IF t.Type \notin allowedTaskTypes THEN ErrType
    ELSE IF t.State \notin validTaskStates THEN ErrState
    ELSE IF Expired(t, n) THEN ErrExpired
    ELSE NoError

Validate(t, n) ==
    IF t.ID = <<>> THEN ErrID
    ELSE IF t.Engagement = <<>> THEN ErrEngagement
    ELSE IF t.Operator = <<>> THEN ErrOperator
    ELSE IF t.ApprovedBy = <<>> THEN ErrApprovedBy
    ELSE IF t.Type \notin allowedTaskTypes THEN ErrType
    ELSE IF ~TTLInRange(t) THEN ErrTTL
    ELSE IF t.State \notin validTaskStates THEN ErrState
    ELSE IF Expired(t, n) THEN ErrExpired
    ELSE NoError

(***************************************************************************)
(* encoding/json, as task.go uses it on Task and SignedTask.               *)
(***************************************************************************)
\* The first instant of year 10000; Time.MarshalJSON refuses years outside
\* [0,9999].
Y10K == Y10KSecond * TicksPerSecond

\* A string is coerced to valid UTF-8: each invalid byte is written as the
\* escape EscFFFD, everything else as itself.
EncodeString(s) == [i \in 1..Len(s) |-> IF s[i] \in {ByteFF, ByteFE} THEN EscFFFD ELSE s[i]]

\* The decoder turns the escape into the rune U+FFFD.
DecodeString(e) == [i \in 1..Len(e) |-> IF e[i] = EscFFFD THEN RuneFFFD ELSE e[i]]

\* The keys a Params map may hold, in ascending byte order.
ParamKeys == << <<"port">>, <<"target">> >>

\* A map is written with its keys sorted.
SortedKeys(m) == SelectSeq(ParamKeys, LAMBDA k : k \in DOMAIN m)

EncodeObject(m) ==
    LET ks == SortedKeys(m)
    IN  [i \in 1..Len(ks) |-> <<EncodeString(ks[i]), EncodeString(m[ks[i]])>>]

\* Later duplicates of a key overwrite earlier ones.
DecodeObject(o) ==
    LET keyAt(i) == DecodeString(o[i][1])
        last(k) == CHOOSE i \in 1..Len(o) : keyAt(i) = k /\ \A j \in 1..Len(o) : keyAt(j) = k => j <= i
    IN  [k \in {keyAt(i) : i \in 1..Len(o)} |-> DecodeString(o[last(k)][2])]

\* the year of c is below 10000 (year 0 lies far before the origin)
TimeEncodable(c) == c < Y10K

\* json.Marshal(task): the fields in declaration order under their json
\* names; cancel_token and params are omitted when empty (omitempty).  An
\* omitted field is the empty set, a present one the singleton of its
\* encoding.  Defined when TimeEncodable(t.CreatedAt).
MarshalTask(h, t) ==
    [id |-> EncodeString(t.ID),
     engagement |-> EncodeString(t.Engagement),
     type |-> EncodeString(t.Type),
     created_at |-> [rfc3339nano |-> t.CreatedAt],
     ttl_seconds |-> t.TTLSeconds,
     operator |-> EncodeString(t.Operator),
     approved_by |-> EncodeString(t.ApprovedBy),
     state |-> EncodeString(t.State),
     cancel_token |-> IF t.CancelToken = <<>> THEN {} ELSE {EncodeString(t.CancelToken)},
     params |-> IF DOMAIN MapOf(h, t.Params) = {} THEN {} ELSE {EncodeObject(h[t.Params])}]

\* json.Unmarshal into a zero Task; a params object is decoded into a map
\* allocated at reference ref.
UnmarshalTask(j, ref) ==
    [ID |-> DecodeString(j.id),
     Engagement |-> DecodeString(j.engagement),
     Type |-> DecodeString(j.type),
     CreatedAt |-> j.created_at.rfc3339nano,
     TTLSeconds |-> j.ttl_seconds,
     Operator |-> DecodeString(j.operator),
     ApprovedBy |-> DecodeString(j.approved_by),
     State |-> DecodeString(j.state),
     CancelToken |-> IF j.cancel_token = {} THEN <<>> ELSE DecodeString(CHOOSE e \in j.cancel_token : TRUE),
     Params |-> IF j.params = {} THEN NilMap ELSE ref]

UnmarshalParams(j) == IF j.params = {} THEN <<>> ELSE DecodeObject(CHOOSE o \in j.params : TRUE)

\* json.Marshal(st): byte slices are written in base64.
MarshalSigned(h, s) ==
    [task |-> MarshalTask(h, s.Task),
     public_key |-> [base64 |-> s.PublicKey],
     signature |-> [base64 |-> s.Signature]]

UnmarshalSigned(j, ref) ==
    [Task |-> UnmarshalTask(j.task, ref),
     PublicKey |-> j.public_key.base64,
     Signature |-> j.signature.base64]

(***************************************************************************)
(* crypto/ed25519, an ideal signature scheme: a signature names the key   *)
(* that made it and the message it was made over; flipped is the set of   *)
(* its bits changed since.                                                 *)
(***************************************************************************)
KeyIds == {1, 2}

PrivateKey(k) == [len |-> PrivateKeySize, key |-> k]
PublicKey(k) == [len |-> PublicKeySize, key |-> k]

\* []byte("short") and other slices of the wrong length
ShortKey(k) == [len |-> 5, key |-> k]

Ed25519Sign(priv, payload) == [len |-> SignatureSize, key |-> priv.key, msg |-> payload, flipped |-> {}]

Ed25519VerifyAnyKey(pub, payload, sig) == sig.flipped = {} /\ sig.msg = payload

Ed25519Verify(pub, payload, sig) == sig.flipped = {} /\ sig.key = pub.key /\ sig.msg = payload

(***************************************************************************)
(* SignTask and VerifyTask                                                 *)
(***************************************************************************)
ErrPrivSize == "invalid private key size"
ErrPubSize == "invalid public key size"
ErrSigSize == "invalid signature size"
ErrValidation == "task validation failed"
ErrMarshal == "marshal task"
ErrSignature == "signature verification failed"
ErrNilSigned == "signed task is nil"

\* SignTask(task, priv, pub) at instant n: the pointer returned, the error
\* and the error it wraps.  The SignedTask holds the task value as passed,
\* its Params reference included.
SignTask(h, t, priv, pub, n) ==
    IF priv.len # PrivateKeySize THEN [st |-> Nil, err |-> ErrPrivSize, cause |-> NoError]
    ELSE IF pub.len # PublicKeySize THEN [st |-> Nil, err |-> ErrPubSize, cause |-> NoError]
    ELSE IF Validate(t, n) # NoError THEN [st |-> Nil, err |-> ErrValidation, cause |-> Validate(t, n)]
    ELSE IF ~TimeEncodable(t.CreatedAt) THEN [st |-> Nil, err |-> ErrMarshal, cause |-> NoError]
    ELSE [st |-> [Task |-> t, PublicKey |-> pub, Signature |-> Ed25519Sign(priv, MarshalTask(h, t))],
          err |-> NoError, cause |-> NoError]

VerifyTaskAtCreation(h, s, n) ==
    IF s = Nil THEN ErrNilSigned
    ELSE IF s.PublicKey.len # PublicKeySize THEN ErrPubSize
    ELSE IF s.Signature.len # SignatureSize THEN ErrSigSize
    ELSE IF ~TimeEncodable(s.Task.CreatedAt) THEN ErrMarshal
    ELSE IF ~Ed25519Verify(s.PublicKey, MarshalTask(h, s.Task), s.Signature) THEN ErrSignature
    ELSE Validate(s.Task, s.Task.CreatedAt)

VerifyTaskValidateFirst(h, s, n) ==
    IF s = Nil THEN ErrNilSigned
    ELSE IF s.PublicKey.len # PublicKeySize THEN ErrPubSize
    ELSE IF s.Signature.len # SignatureSize THEN ErrSigSize
    ELSE IF Validate(s.Task, n) # NoError THEN Validate(s.Task, n)
    ELSE IF ~TimeEncodable(s.Task.CreatedAt) THEN ErrMarshal
    ELSE IF ~Ed25519Verify(s.PublicKey, MarshalTask(h, s.Task), s.Signature) THEN ErrSignature
    ELSE NoError

VerifyTaskSizesLast(h, s, n) ==
    IF s = Nil THEN ErrNilSigned
    ELSE IF ~TimeEncodable(s.Task.CreatedAt) THEN ErrMarshal
    ELSE IF s.PublicKey.len = PublicKeySize /\ s.Signature.len = SignatureSize
            /\ ~Ed25519Verify(s.PublicKey, MarshalTask(h, s.Task), s.Signature) THEN ErrSignature
    ELSE IF Validate(s.Task, n) # NoError THEN Validate(s.Task, n)
    ELSE IF s.PublicKey.len # PublicKeySize THEN ErrPubSize
    ELSE IF s.Signature.len # SignatureSize THEN ErrSigSize
    ELSE NoError

\* VerifyTask(st) at instant n
VerifyTask(h, s, n) ==
    IF s = Nil THEN ErrNilSigned
    ELSE IF s.PublicKey.len # PublicKeySize THEN ErrPubSize
    ELSE IF s.Signature.len # SignatureSize THEN ErrSigSize
    ELSE IF ~TimeEncodable(s.Task.CreatedAt) THEN ErrMarshal
    ELSE IF ~Ed25519Verify(s.PublicKey, MarshalTask(h, s.Task), s.Signature) THEN ErrSignature
    ELSE Validate(s.Task, n)

(***************************************************************************)
(* The values the operations are called with.                              *)
(***************************************************************************)
Second == TicksPerSecond

\* a Go map as a function of its keys
MapSet(m, k, v) == [x \in (DOMAIN m) \cup {k} |-> IF x = k THEN v ELSE m[x]]

MapDelete(m, k) == IF (DOMAIN m) \ {k} = {} THEN <<>> ELSE [x \in (DOMAIN m) \ {k} |-> m[x]]

\* map[string]string{} and map[string]string{"target": "192.168.1.0/24"}
ParamLiterals == {<<>>, MapSet(<<>>, <<"target">>, <<"192.168.1.0/24">>)}

\* references of the heap: 1 is the map literal of the caller's task, 2 the
\* map json.Unmarshal allocates, 3 a map literal written into a SignedTask
CallerRef == 1
DecoderRef == 2
LiteralRef == 3

\* the task of the test suite and of the README example
validTask(c) ==
    [ID |-> <<"task-001">>, Engagement |-> <<"eng-2026-q1">>, Type |-> TaskTypeRecon,
     CreatedAt |-> c, TTLSeconds |-> 600, Operator |-> <<"op-alice">>,
     ApprovedBy |-> <<"lead-bob">>, State |-> TaskStateApproved,
     CancelToken |-> <<>>, Params |-> CallerRef]

\* the same task under the names task.go declares
baseTask == [validTask(0) EXCEPT !.Type = TaskSimulateLogin, !.State = StatePending]

\* inputs of the validator
ValidateCreatedAts == {0, 300 * Second}

ValidateInstants ==
    ValidateCreatedAts
    \cup {c + ttl * Second + d : c \in ValidateCreatedAts, ttl \in {minTTLSeconds, 600, maxTTLSeconds}, d \in {-1, 0, 1}}

ValidateTasks ==
    [ID : {<<>>, <<"task-001">>},
     Engagement : {<<>>, <<"eng-2026-q1">>},
     Type : {TaskSimulateLogin, TaskTypeRecon, <<"malware">>},
     CreatedAt : ValidateCreatedAts,
     TTLSeconds : {minTTLSeconds - 1, minTTLSeconds, 600, maxTTLSeconds, maxTTLSeconds + 1},
     Operator : {<<>>, <<"op-alice">>},
     ApprovedBy : {<<>>, <<"lead-bob">>},
     State : {StatePending, TaskStateApproved, <<>>},
     CancelToken : {<<>>},
     Params : {NilMap}]

\* inputs of the attestation protocol
ProtocolTasks ==
    {baseTask,
     validTask(0),
     [baseTask EXCEPT !.ID = <<ByteFF>>],
     [baseTask EXCEPT !.CreatedAt = Y10K],
     [baseTask EXCEPT !.CancelToken = <<"cancel-1">>],
     [baseTask EXCEPT !.Params = NilMap]}

ClockInstants == {0, 300 * Second, 600 * Second - 1, 600 * Second, 600 * Second + 1, 601 * Second}

\* values a field is overwritten with
FieldValues(f) ==
    CASE f = "ID" -> {<<"tampered-id">>, <<ByteFE>>}
      [] f = "Engagement" -> {<<"eng-other">>}
      [] f = "Type" -> {<<"malware">>}
      [] f = "CreatedAt" -> {Second}
      [] f = "TTLSeconds" -> {maxTTLSeconds}
      [] f = "Operator" -> {<<"op-mallory">>}
      [] f = "ApprovedBy" -> {<<"lead-mallory">>}
      [] f = "State" -> {StateCompleted}
      [] f = "CancelToken" -> {<<"cancel-2">>}

ScalarFields == {"ID", "Engagement", "Type", "CreatedAt", "TTLSeconds", "Operator", "ApprovedBy", "State", "CancelToken"}

PrivateKeys == {PrivateKey(1), ShortKey(1)}
PublicKeys == {PublicKey(1), PublicKey(2), ShortKey(1)}

\* bytes that no private key produced
Garbage(n) == [len |-> n, key |-> 0, msg |-> <<>>, flipped |-> {}]

NoKey == [len |-> 0, key |-> 0]

\* the call just made and what it returned; any other step forgets it
NoCall == [op |-> "none", which |-> "none", err |-> NoError, cause |-> NoError, priv |-> NoKey, pub |-> NoKey]

Call(op, which, err) == [op |-> op, which |-> which, err |-> err, cause |-> NoError, priv |-> NoKey, pub |-> NoKey]

(***************************************************************************)
(* State machine of the attestation protocol.                              *)
(***************************************************************************)
Init ==
    /\ now = 0
    /\ task \in ProtocolTasks
    /\ \E m \in ParamLiterals : heap = <<IF task.Params = NilMap THEN <<>> ELSE m, <<>>, <<>>>>
    /\ st = Nil
    /\ st2 = Nil
    /\ ret = NoCall
    /\ issued = Nil
    /\ expiredSeen = FALSE
    /\ edits = 0
    /\ log = <<>>

\* time.Now() moves forward between calls
Advance ==
    /\ \E n \in ClockInstants : n > now /\ now' = n
    /\ ret' = NoCall
    /\ UNCHANGED <<log, task, heap, st, st2, issued, expiredSeen, edits>>

\* err := task.Validate(time.Now())
ValidateOp ==
    /\ ret' = Call("Validate", "task", Validate(task, now))
    /\ UNCHANGED <<log, now, task, heap, st, st2, issued, expiredSeen, edits>>

\* st, err := SignTask(task, priv, pub)
SignOp ==
    \E priv \in PrivateKeys, pub \in PublicKeys :
        LET r == SignTask(heap, task, priv, pub, now)
        IN  /\ st' = r.st
            /\ issued' = DeepSigned(heap, r.st)
            /\ ret' = [op |-> "SignTask", which |-> "task", err |-> r.err, cause |-> r.cause,
                       priv |-> priv, pub |-> pub]
            /\ expiredSeen' = FALSE
            /\ UNCHANGED <<log, now, task, heap, st2, edits>>

\* st = &SignedTask{Task: task, PublicKey: pub, Signature: sig} with bytes
\* that are no signature
ForgeOp ==
    /\ \E pubsig \in {<<PublicKey(1), Garbage(SignatureSize)>>,
                      <<PublicKey(1), Garbage(SignatureSize - 1)>>,
                      <<ShortKey(1), Garbage(SignatureSize)>>} :
        st' = [Task |-> task, PublicKey |-> pubsig[1], Signature |-> pubsig[2]]
    /\ issued' = Nil
    /\ expiredSeen' = FALSE
    /\ ret' = NoCall
    /\ UNCHANGED <<log, now, task, heap, st2, edits>>

\* err := VerifyTask(st), VerifyTask(nil)
VerifyOp ==
    \E which \in {"st", "nil"} :
        LET s == IF which = "st" THEN st ELSE Nil
            e == VerifyTask(heap, s, now)
        IN  /\ ret' = Call("VerifyTask", which, e)
            /\ expiredSeen' = (expiredSeen \/ (which = "st" /\ s # Nil /\ DeepSigned(heap, s) = issued /\ e = ErrExpired))
            /\ UNCHANGED <<log, now, task, heap, st, st2, issued, edits>>

\* err := VerifyTask(&st2), on the SignedTask that was decoded
VerifyDecodedOp ==
    /\ st2 # Nil
    /\ ret' = Call("VerifyTask", "st2", VerifyTask(heap, st2, now))
    /\ UNCHANGED <<log, now, task, heap, st, st2, issued, expiredSeen, edits>>

\* st.Signature[i] ^= mask: one bit of the signature changes
TamperSignatureBit ==
    /\ st # Nil /\ edits < MaxEdits
    /\ \E b \in 0..(NSigBits - 1) :
        st' = [st EXCEPT !.Signature.flipped =
                 IF b \in @ THEN @ \ {b} ELSE @ \cup {b}]
    /\ edits' = edits + 1
    /\ ret' = NoCall
    /\ UNCHANGED <<log, now, task, heap, st2, issued, expiredSeen>>

\* st.Signature = st.Signature[:n], st.PublicKey = other
TamperSizes ==
    /\ st # Nil /\ edits < MaxEdits
    /\ \/ /\ st.Signature.len = SignatureSize
          /\ st' = [st EXCEPT !.Signature.len = SignatureSize - 1]
       \/ \E pub \in PublicKeys \ {st.PublicKey} : st' = [st EXCEPT !.PublicKey = pub]
    /\ edits' = edits + 1
    /\ ret' = NoCall
    /\ UNCHANGED <<log, now, task, heap, st2, issued, expiredSeen>>

\* st.Task.ID = "tampered-id" and the like: one field of the embedded task
\* is overwritten with a different value
TamperField ==
    /\ st # Nil /\ edits < MaxEdits
    /\ \E f \in ScalarFields : \E v \in FieldValues(f) \ {st.Task[f]} :
        st' = [st EXCEPT !.Task[f] = v]
    /\ edits' = edits + 1
    /\ ret' = NoCall
    /\ UNCHANGED <<log, now, task, heap, st2, issued, expiredSeen>>

\* st.Task.Params = nil, st.Task.Params = map[string]string{...},
\* st.Task.Params[k] = v, delete(st.Task.Params, k)
TamperParams ==
    /\ st # Nil /\ edits < MaxEdits
    /\ \/ /\ st.Task.Params # NilMap
          /\ st' = [st EXCEPT !.Task.Params = NilMap]
          /\ heap' = heap
       \/ \E m \in ParamLiterals :
            /\ st' = [st EXCEPT !.Task.Params = LiteralRef]
            /\ heap' = [heap EXCEPT ![LiteralRef] = m]
            /\ Deep(heap', st'.Task) # Deep(heap, st.Task)
       \/ /\ st.Task.Params # NilMap
          /\ heap' = [heap EXCEPT ![st.Task.Params] = MapSet(@, <<"port">>, <<"443">>)]
          /\ heap' # heap
          /\ st' = st
       \/ /\ st.Task.Params # NilMap
          /\ \E k \in DOMAIN heap[st.Task.Params] :
                heap' = [heap EXCEPT ![st.Task.Params] = MapDelete(@, k)]
          /\ st' = st
    /\ edits' = edits + 1
    /\ ret' = NoCall
    /\ UNCHANGED <<log, now, task, st2, issued, expiredSeen>>

\* the caller changes its own task value after the call: task.ID = ...,
\* task.Params = nil
MutateField ==
    /\ edits < MaxEdits
    /\ \/ \E f \in ScalarFields : \E v \in FieldValues(f) \ {task[f]} :
            task' = [task EXCEPT ![f] = v]
       \/ /\ task.Params # NilMap
          /\ task' = [task EXCEPT !.Params = NilMap]
    /\ edits' = edits + 1
    /\ ret' = NoCall
    /\ UNCHANGED <<log, now, heap, st, st2, issued, expiredSeen>>

\* the caller changes its own Params map: task.Params[k] = v,
\* delete(task.Params, k)
MutateParams ==
    /\ edits < MaxEdits
    /\ task.Params # NilMap
    /\ \/ /\ \E k \in {<<"port">>, <<"target">>} :
                heap' = [heap EXCEPT ![task.Params] = MapSet(@, k, <<"10.0.0.0/8">>)]
          /\ heap' # heap
       \/ \E k \in DOMAIN heap[task.Params] :
                heap' = [heap EXCEPT ![task.Params] = MapDelete(@, k)]
    /\ edits' = edits + 1
    /\ ret' = NoCall
    /\ UNCHANGED <<log, now, task, st, st2, issued, expiredSeen>>

\* data, err := json.Marshal(st); var st2 SignedTask;
\* err = json.Unmarshal(data, &st2)
RoundTripOp ==
    /\ st # Nil
    /\ IF TimeEncodable(st.Task.CreatedAt)
       THEN /\ st2' = UnmarshalSigned(MarshalSigned(heap, st), DecoderRef)
            /\ heap' = [heap EXCEPT ![DecoderRef] = UnmarshalParams(MarshalSigned(heap, st).task)]
            /\ ret' = Call("RoundTrip", "st", NoError)
       ELSE /\ UNCHANGED <<st2, heap>>
            /\ ret' = Call("RoundTrip", "st", ErrMarshal)
    /\ UNCHANGED <<log, now, task, st, issued, expiredSeen, edits>>

Next ==
    \/ Advance
    \/ ValidateOp
    \/ SignOp
    \/ ForgeOp
    \/ VerifyOp
    \/ TamperSignatureBit
    \/ TamperSizes
    \/ TamperField
    \/ TamperParams

Spec == Init /\ [][Next]_vars

(***************************************************************************)
(* The caller keeps using its own task value next to the SignedTask.       *)
(***************************************************************************)
NextOwnership ==
    \/ Advance
    \/ SignOp
    \/ VerifyOp
    \/ MutateField
    \/ MutateParams

SpecOwnership == Init /\ [][NextOwnership]_vars

(***************************************************************************)
(* A SignedTask travels through its external representation.               *)
(***************************************************************************)
NextWire ==
    \/ Advance
    \/ SignOp
    \/ VerifyOp
    \/ RoundTripOp
    \/ VerifyDecodedOp

SpecWire == Init /\ [][NextWire]_vars

(***************************************************************************)
(* The validator alone, as a function of the task and the instant.         *)
(***************************************************************************)
InitValidate ==
    /\ now \in ValidateInstants
    /\ task \in ValidateTasks
    /\ heap = <<<<>>, <<>>, <<>>>>
    /\ st = Nil
    /\ st2 = Nil
    /\ ret = NoCall
    /\ issued = Nil
    /\ expiredSeen = FALSE
    /\ edits = 0
    /\ log = <<>>

NextValidate == ValidateOp

SpecValidate == InitValidate /\ [][NextValidate]_vars

(***************************************************************************)
(* The audit chain (python/rte_a_audit, AuditLogger).  Its source is not   *)
(* part of the material under src/; the definitions below follow the       *)
(* design document: the record of section 3, append and verifyChain of     *)
(* section 4.3 and the external record of section 6.                       *)
(*                                                                         *)
(* A digest is ideal: it is determined by its preimage and by nothing      *)
(* else, and a digest with a byte flipped is the digest of no preimage.    *)
(***************************************************************************)
MaxRecords == 3

Digest(preimage) == [sha256 |-> preimage, flipped |-> FALSE]

\* the fixed digest that stands for chain_hash[-1]
Sentinel == Digest(<<>>)

\* chain_hash[n] = Digest(chain_hash[n-1] || sequence[n] || timestamp[n] ||
\*     operator[n] || engagement[n] || action[n] || result_hash[n] ||
\*     authorization[n])
ChainHash(prev, rec) ==
    Digest(<<prev, rec.sequence, rec.timestamp, rec.operator_id,
             rec.engagement_id, rec.action, rec.result_hash,
             rec.authorization>>)

\* logger = AuditLogger(engagement_id="eng-001", operator_id="op-alice")
EngagementId == "eng-001"
OperatorId == "op-alice"

AuditActions == {"recon_scan", "simulate_login"}
ResultPayloads == {"hosts=5", "hosts=0"}
TaskIds == {"task-001"}

LastChainHash(records) ==
    IF records = <<>> THEN Sentinel ELSE records[Len(records)].chain_hash

NextSequence(records) ==
    IF records = <<>> THEN 0 ELSE records[Len(records)].sequence + 1

\* append(action, resultPayload, authorization, taskID) -> AuditRecord,
\* at the instant n, on the log whose records are given
NewRecord(records, action, resultPayload, authorization, taskID, n) ==
    LET fields == [sequence      |-> NextSequence(records),
                   timestamp     |-> n,
                   operator_id   |-> OperatorId,
                   engagement_id |-> EngagementId,
                   action        |-> action,
                   result_hash   |-> Digest(<<resultPayload>>),
                   authorization |-> authorization,
                   task_id       |-> taskID,
                   prev_hash     |-> LastChainHash(records)]
    IN  fields @@ ("chain_hash" :> ChainHash(fields.prev_hash, fields))

append(records, action, resultPayload, authorization, taskID, n) ==
    Append(records, NewRecord(records, action, resultPayload, authorization, taskID, n))

\* verifyChain(records) -> bool: the sequence numbers are contiguous from 0,
\* and every record's stored chain_hash is the one recomputed from its own
\* fields and the previous record's stored chain_hash
verifyChain(records) ==
    \A i \in 1..Len(records) :
        /\ records[i].sequence = i - 1
        /\ records[i].chain_hash =
               ChainHash(IF i = 1 THEN Sentinel ELSE records[i - 1].chain_hash,
                         records[i])

RecordFields ==
    {"sequence", "timestamp", "operator_id", "engagement_id", "action",
     "result_hash", "authorization", "task_id", "prev_hash", "chain_hash"}

\* a value of the field's type other than the one stored
Flip(d) == [d EXCEPT !.flipped = ~d.flipped]

OtherValue(f, v) ==
    IF f \in {"sequence", "timestamp"} THEN v + 1
    ELSE IF f \in {"result_hash", "prev_hash", "chain_hash"} THEN Flip(v)
    ELSE "tampered"

RemoveAt(records, i) ==
    [j \in 1..(Len(records) - 1) |-> IF j < i THEN records[j] ELSE records[j + 1]]

\* rec = logger.log_event(action=..., result=..., authorization=..., task_id=...)
AppendOp ==
    /\ Len(log) < MaxRecords
    /\ \E a \in AuditActions, r \in ResultPayloads, t \in TaskIds :
           log' = append(log, a, r, t, t, now)
    /\ ret' = NoCall
    /\ UNCHANGED <<now, task, heap, st, st2, issued, expiredSeen, edits>>

\* one field of one stored record is overwritten, nothing is recomputed
MutateRecord ==
    /\ edits = 0
    /\ \E i \in 1..Len(log), f \in RecordFields :
           log' = [log EXCEPT ![i][f] = OtherValue(f, log[i][f])]
    /\ edits' = edits + 1
    /\ ret' = NoCall
    /\ UNCHANGED <<now, task, heap, st, st2, issued, expiredSeen>>

\* a record that is neither the first nor the last is taken out of the log
RemoveRecord ==
    /\ edits = 0
    /\ \E i \in 2..(Len(log) - 1) : log' = RemoveAt(log, i)
    /\ edits' = edits + 1
    /\ ret' = NoCall
    /\ UNCHANGED <<now, task, heap, st, st2, issued, expiredSeen>>

\* AuditLogger.verify_chain(records)
VerifyChainOp ==
    /\ log # <<>>
    /\ ret' = Call("verifyChain", "log", IF verifyChain(log) THEN "true" ELSE "false")
    /\ UNCHANGED <<log, now, task, heap, st, st2, issued, expiredSeen, edits>>

InitAudit ==
    /\ now \in {0, 300 * Second}
    /\ task = baseTask
    /\ heap = <<<<>>, <<>>, <<>>>>
    /\ st = Nil
    /\ st2 = Nil
    /\ ret = NoCall
    /\ issued = Nil
    /\ expiredSeen = FALSE
    /\ edits = 0
    /\ log = <<>>

NextAudit ==
    \/ AppendOp
    \/ MutateRecord
    \/ RemoveRecord
    \/ VerifyChainOp

SpecAudit == InitAudit /\ [][NextAudit]_vars

(***************************************************************************)
(* The conditions of a valid task, as the specification lists them.        *)
(***************************************************************************)
CheckOrder == <<"ID", "Engagement", "Operator", "ApprovedBy", "Type", "TTL", "State", "Expiry">>

Holds(c, t, n) ==
    CASE c = "ID" -> t.ID # <<>>
      [] c = "Engagement" -> t.Engagement # <<>>
      [] c = "Operator" -> t.Operator # <<>>
      [] c = "ApprovedBy" -> t.ApprovedBy # <<>>
      [] c = "Type" -> t.Type \in allowedTaskTypes
      [] c = "TTL" -> t.TTLSeconds >= 1 /\ t.TTLSeconds <= 3600
      [] c = "State" -> t.State \in validTaskStates
      [] c = "Expiry" -> n < t.CreatedAt + t.TTLSeconds * Second

\* the positions in CheckOrder of the conditions the task violates at n
Violated(t, n) == {i \in 1..Len(CheckOrder) : ~Holds(CheckOrder[i], t, n)}

ErrorOf(c) ==
    CASE c = "ID" -> ErrID
      [] c = "Engagement" -> ErrEngagement
      [] c = "Operator" -> ErrOperator
      [] c = "ApprovedBy" -> ErrApprovedBy
      [] c = "Type" -> ErrType
      [] c = "TTL" -> ErrTTL
      [] c = "State" -> ErrState
      [] c = "Expiry" -> ErrExpired

KindOfCondition(c) ==
    CASE c \in {"ID", "Engagement", "Operator", "ApprovedBy"} -> "MissingField"
      [] c = "Type" -> "UnsupportedType"
      [] c = "TTL" -> "TTLOutOfRange"
      [] c = "State" -> "InvalidState"
      [] c = "Expiry" -> "Expired"

KindOfError(e) ==
    CASE e \in {ErrID, ErrEngagement, ErrOperator, ErrApprovedBy} -> "MissingField"
      [] e = ErrType -> "UnsupportedType"
      [] e = ErrTTL -> "TTLOutOfRange"
      [] e = ErrState -> "InvalidState"
      [] e = ErrExpired -> "Expired"
      [] OTHER -> "None"

Validated == ret.op = "Validate"

\* C1: Validate succeeds on a task that meets every condition at now, and
\* on a task that violates exactly one condition it fails with the error
\* kind of that condition.
C1_ValidateSingleCondition ==
    Validated =>
        /\ Violated(task, now) = {} => ret.err = NoError
        /\ \A i \in 1..Len(CheckOrder) :
              Violated(task, now) = {i} => KindOfError(ret.err) = KindOfCondition(CheckOrder[i])

\* a task whose only fault is a TTL below the range was validated
C1_Witness ==
    /\ Validated
    /\ Violated(task, now) = {6}
    /\ task.TTLSeconds = 0
    /\ ret.err = ErrTTL

\* C2: at now = CreatedAt + TTLSeconds an otherwise valid task fails as
\* expired; one tick earlier it validates.
C2_ExpiryBoundary ==
    (Validated /\ Violated(task, now) \subseteq {8}) =>
        /\ now = task.CreatedAt + task.TTLSeconds * Second => ret.err = ErrExpired
        /\ now = task.CreatedAt + task.TTLSeconds * Second - 1 => ret.err = NoError

\* an otherwise valid task was validated at the very instant it expires
C2_Witness ==
    /\ Validated
    /\ Violated(task, now) = {8}
    /\ now = task.CreatedAt + task.TTLSeconds * Second
    /\ ret.err = ErrExpired

\* C3: of several violated conditions Validate reports the first one in
\* the order ID, Engagement, Operator, ApprovedBy, Type, TTL, State,
\* expiry, and only that one.
C3_FirstViolationReported ==
    (Validated /\ Cardinality(Violated(task, now)) >= 2) =>
        \E i \in Violated(task, now) :
            /\ \A j \in Violated(task, now) : i <= j
            /\ ret.err = ErrorOf(CheckOrder[i])

\* a task with an unsupported type and a TTL out of range, nothing earlier
\* violated, was validated
C3_Witness ==
    /\ Validated
    /\ {5, 6} \subseteq Violated(task, now)
    /\ \A j \in Violated(task, now) : j >= 5
    /\ ret.err = ErrType

(***************************************************************************)
(* Claims about the attestation protocol.                                  *)
(***************************************************************************)
Signed == ret.op = "SignTask"

Verified == ret.op = "VerifyTask" /\ ret.which = "st" /\ st # Nil

\* st is a SignedTask that SignTask returned and it reads as it did then
Unmodified == st # Nil /\ issued # Nil /\ DeepSigned(heap, st) = issued

\* the public key in st is the one of the private key that signed
MatchingKeys(s) == s.Signature.key = s.PublicKey.key

MatchingPair(priv, pub) == \E k \in KeyIds : priv = PrivateKey(k) /\ pub = PublicKey(k)

ExpiresAt(t) == t.CreatedAt + t.TTLSeconds * Second

Entries(t) == [t EXCEPT !.Params = IF @ = {} THEN <<>> ELSE CHOOSE m \in @ : TRUE]

\* the SignedTask differs from what SignTask returned in its signature
\* alone, by one bit, or in exactly one field of the embedded task
OneChange ==
    /\ st # Nil /\ issued # Nil
    /\ st.PublicKey = issued.PublicKey
    /\ \/ /\ Deep(heap, st.Task) = issued.Task
          /\ st.Signature.len = issued.Signature.len
          /\ Cardinality(st.Signature.flipped) = 1
       \/ /\ st.Signature = issued.Signature
          /\ Cardinality({f \in DOMAIN issued.Task :
                            Entries(Deep(heap, st.Task))[f] # Entries(issued.Task)[f]}) = 1

\* C5: VerifyTask fails on a SignedTask whose signature was changed in one
\* bit or whose embedded task was changed in one field, nothing else
\* recomputed.
C5_TamperDetected == (Verified /\ OneChange) => ret.err # NoError

\* C6: an unmodified SignedTask under the matching public key fails
\* VerifyTask as expired at every instant at or after CreatedAt +
\* TTLSeconds, and once it has failed as expired it never verifies again.
C6_ExpiryAtVerification ==
    /\ (Verified /\ Unmodified /\ MatchingKeys(st) /\ now >= ExpiresAt(st.Task))
          => ret.err = ErrExpired
    /\ (Verified /\ Unmodified /\ expiredSeen) => ret.err # NoError

\* the SignedTask failed as expired before and is verified again later
C6_Witness ==
    /\ Verified /\ Unmodified /\ expiredSeen
    /\ now > ExpiresAt(st.Task)
    /\ st.Signature.flipped = {} /\ st.Signature = issued.Signature
    /\ ret.err = ErrExpired

\* C7: SignTask with a key of the wrong length fails with the key size
\* error and returns nothing, whatever the task; VerifyTask on a SignedTask
\* whose PublicKey or Signature has the wrong length fails with the key
\* size or signature size error, whatever the embedded task.
C7_SizeChecksFirst ==
    /\ (Signed /\ ret.priv.len # 64) => (ret.err = ErrPrivSize /\ st = Nil)
    /\ (Signed /\ ret.priv.len = 64 /\ ret.pub.len # 32) => (ret.err = ErrPubSize /\ st = Nil)
    /\ (Verified /\ st.PublicKey.len # 32) => ret.err = ErrPubSize
    /\ (Verified /\ st.PublicKey.len = 32 /\ st.Signature.len # 64) => ret.err = ErrSigSize

\* a SignedTask with a short signature around a task that does not
\* validate was verified
C7_Witness ==
    /\ Verified
    /\ st.Signature.len # 64
    /\ Violated(st.Task, now) # {}
    /\ ret.err = ErrSigSize

\* the outcome of VerifyTask at n on the SignedTask as SignTask returned it
VerifyIssued(n) ==
    LET m == IF issued.Task.Params = {} THEN <<>> ELSE CHOOSE x \in issued.Task.Params : TRUE
    IN  VerifyTask(<<m, <<>>, <<>>>>,
                   [issued EXCEPT !.Task.Params = IF @ = {} THEN NilMap ELSE CallerRef], n)

\* C8: after SignTask returns, no change the caller makes to its own task
\* value, its Params map included, changes the task embedded in the
\* SignedTask or the outcome of VerifyTask on it.
C8_IndependentCopy ==
    /\ (st # Nil /\ issued # Nil) => DeepSigned(heap, st) = issued
    /\ (Verified /\ issued # Nil) => ret.err = VerifyIssued(now)

\* st2 reads as the result of encoding and decoding st
IsRoundTripOf(s2, s) ==
    /\ s # Nil /\ s2 # Nil
    /\ TimeEncodable(s.Task.CreatedAt)
    /\ LET j == MarshalSigned(heap, s)
           d == UnmarshalSigned(j, DecoderRef)
       IN  /\ [s2 EXCEPT !.Task.Params = 0] = [d EXCEPT !.Task.Params = 0]
           /\ (s2.Task.Params = NilMap) = (d.Task.Params = NilMap)
           /\ MapOf(heap, s2.Task.Params) = UnmarshalParams(j.task)

\* C9: a SignedTask that SignTask returned, encoded and decoded again,
\* verifies exactly as the original does, and its payload is the payload
\* that was signed.
C9_RoundTripVerifiesAlike ==
    /\ (ret.op = "RoundTrip" /\ ret.err = NoError /\ Unmodified) =>
          /\ MarshalTask(heap, st2.Task) = st.Signature.msg
          /\ \A n \in ClockInstants : VerifyTask(heap, st2, n) = VerifyTask(heap, st, n)
    /\ (ret.op = "VerifyTask" /\ ret.which = "st2" /\ Unmodified /\ IsRoundTripOf(st2, st)) =>
          ret.err = VerifyTask(heap, st, now)

\* C10: the task of the test suite and of the README example validates,
\* signs under a matching key pair and verifies.
C10_TestTaskAccepted ==
    LET fresh == task \in {validTask(0), [validTask(0) EXCEPT !.Params = NilMap]}
                 /\ now >= task.CreatedAt /\ now <= task.CreatedAt + 300 * Second
    IN  /\ (Validated /\ fresh) => ret.err = NoError
        /\ (Signed /\ fresh /\ MatchingPair(ret.priv, ret.pub)) => (ret.err = NoError /\ st # Nil)

(***************************************************************************)
(* C11.  Audit chain tamper evidence: a log produced by sequential appends *)
(* on an empty log and left untouched makes verifyChain return true; the   *)
(* same log after one field of one record was overwritten with nothing     *)
(* recomputed, or after a record was removed from the middle, makes        *)
(* verifyChain return false.                                               *)
(***************************************************************************)
ChainVerified == ret.op = "verifyChain"

C11_TamperEvident ==
    ChainVerified =>
        /\ edits = 0 => ret.err = "true"
        /\ edits = 1 => ret.err = "false"

(***************************************************************************)
(* The order of the checks of VerifyTask.                                  *)
(***************************************************************************)
VerifyCalled == ret.op = "VerifyTask" /\ ret.which \in {"st", "nil"}

\* the argument of the call
Argument == IF ret.which = "st" THEN st ELSE Nil

SizesRight(s) == s.PublicKey.len = PublicKeySize /\ s.Signature.len = SignatureSize

\* the signature is one over the payload recomputed from the embedded task,
\* made with the private key of the embedded public key
SignatureMatches(s) == Ed25519Verify(s.PublicKey, MarshalTask(heap, s.Task), s.Signature)

ValidationErrors ==
    {ErrID, ErrEngagement, ErrOperator, ErrApprovedBy, ErrType, ErrTTL, ErrState, ErrExpired}

KeySizesRight == ret.priv.len = PrivateKeySize /\ ret.pub.len = PublicKeySize

====
